---- MODULE Spec2Model ----
(***************************************************************************)
(* Model of the image cycle controller of src/src/extension.ts.            *)
(*                                                                         *)
(* One extension-host process at a time: the module is loaded (intervalId  *)
(* is undefined), the host calls activate once, the user opens settings    *)
(* surfaces whose webview posts saveSettings / startCycle / stopCycle      *)
(* messages, setInterval timers tick, the host calls deactivate and        *)
(* disposes context.subscriptions, and a later process loads the module    *)
(* again over the same persisted globalState.                              *)
(*                                                                         *)
(* Every handler runs to completion in one step, except the saveSettings   *)
(* handler, which suspends at its await (two steps).                       *)
(***************************************************************************)
EXTENDS Integers, Sequences, FiniteSets

VARIABLES phase, globalState, intervalId, timers, settingsPanels, pending,
          imagePanels, lastCall

vars == <<phase, globalState, intervalId, timers, settingsPanels, pending,
          imagePanels, lastCall>>

(* ---------------------------- bounds ----------------------------------- *)

MaxUrls == 1            \* longest url list a settings surface is edited to
MaxSettingsPanels == 2  \* settings surfaces open at once
MaxPending == 1         \* saveSettings handlers suspended at their await
MaxImagePanels == 2     \* image surfaces opened within one process

(* ------------------------ values and numbers --------------------------- *)

\* A JavaScript number: an integer, or NaN (which reads back as null once the
\* host has serialised it; neither is an integer, and both schedule alike).
Num(n) == [nan |-> FALSE, v |-> n]

NaN == [nan |-> TRUE, v |-> 0]

\* x * n for a JavaScript number x and an integer n.
Times(x, n) == IF x.nan THEN NaN ELSE Num(x.v * n)

Undefined == 0

defaultImages ==
  << "https://i.imgur.com/lBsiH4u.png", "https://i.imgur.com/771nDEc.png",
     "https://i.imgur.com/oL0mqN5.png", "https://i.imgur.com/2hJcobD.png",
     "https://i.imgur.com/9BzZDag.png", "https://i.imgur.com/O4u6CXU.png" >>

DefaultSettings == [imageUrls |-> defaultImages, intervalMinutes |-> Num(4)]

(* --------------------------- notifications ----------------------------- *)

Info(m) == [severity |-> "information", message |-> m]

Warning(m) == [severity |-> "warning", message |-> m]

Error(m) == [severity |-> "error", message |-> m]

\* The handler that ran last: the Settings of the message it received, and what
\* it showed to the host: its notifications, the image urls it displayed and the
\* Settings it rendered into a settings surface; drawn is the index its random
\* draw gave, if it drew.
Call(op, message, notes, shown, rendered) ==
  [op |-> op, message |-> message, notes |-> notes, shown |-> shown,
   rendered |-> rendered, drawn |-> <<>>]

\* The same record for a handler whose random draw gave index.
Drawn(call, index) == [call EXCEPT !.drawn = <<index>>]

(* ------------------- the settings surface (webview) -------------------- *)

\* What the user can have in a url text box, and in the interval field.
UrlInputs == {"a", "b", " "}

IntervalInputs == { <<>>, <<"0">>, <<"2">>, <<"-", "1">> }

RECURSIVE SeqsUpTo(_, _)
SeqsUpTo(S, n) ==
  IF n = 0 THEN {<<>>}
  ELSE LET shorter == SeqsUpTo(S, n - 1)
       IN shorter \cup {Append(s, x) : s \in {t \in shorter : Len(t) = n - 1}, x \in S}

\* url.trim()
Trim(url) == IF url = " " THEN "" ELSE url

\* urls.filter(url => url.trim() !== '')
RECURSIVE FilterBlank(_)
FilterBlank(urls) ==
  IF urls = <<>> THEN <<>>
  ELSE IF Trim(Head(urls)) # "" THEN <<Head(urls)>> \o FilterBlank(Tail(urls))
       ELSE FilterBlank(Tail(urls))

DigitChars == <<"0", "1", "2", "3", "4", "5", "6", "7", "8", "9">>

IsDigit(c) == \E k \in 1..10 : DigitChars[k] = c

DigitVal(c) == (CHOOSE k \in 1..10 : DigitChars[k] = c) - 1

RECURSIVE Digits(_, _)
Digits(s, acc) ==
  IF s = <<>> \/ ~IsDigit(Head(s)) THEN acc
  ELSE Digits(Tail(s), acc * 10 + DigitVal(Head(s)))

\* parseInt(text): optional sign, then the leading decimal digits; NaN if none.
ParseInt(s) ==
  LET signed == s # <<>> /\ Head(s) \in {"-", "+"}
      body == IF signed THEN Tail(s) ELSE s
  IN IF body = <<>> \/ ~IsDigit(Head(body)) THEN NaN
     ELSE IF signed /\ Head(s) = "-" THEN Num(0 - Digits(body, 0))
     ELSE Num(Digits(body, 0))

\* The message the webview's saveSettings() posts.
SaveMessage(urls, interval) ==
  [command |-> "saveSettings",
   settings |-> [imageUrls |-> FilterBlank(urls),
                 intervalMinutes |-> ParseInt(interval)]]

(* ------------------------------ host ----------------------------------- *)

\* Faulty variant: the stored value is never found, the default is returned.
GetSettings_AlwaysDefault == DefaultSettings

\* context.globalState.get("imageCycleSettings", default)
GetSettings == IF globalState = <<>> THEN DefaultSettings ELSE globalState[1]

\* Faulty variant: the new value is merged into the one already stored.
Update_Merge(state, value) ==
  IF state = <<>> THEN <<value>>
  ELSE <<[imageUrls |-> state[1].imageUrls \o value.imageUrls,
          intervalMinutes |-> value.intervalMinutes]>>

\* context.globalState.update("imageCycleSettings", value): the value get returns
\* from the call on
Update(state, value) == <<value>>

\* A handle no scheduled timer and no variable holds.
NewTimerId ==
  CHOOSE i \in 1..(Cardinality(timers) + 2) :
    i # intervalId /\ \A t \in timers : t.id # i

\* Faulty variant: the timer is not cancelled.
ClearInterval_Keep(ts, id) == ts

\* clearInterval(id)
ClearInterval(ts, id) == {t \in ts : t.id # id}

\* Faulty variant: the index is rounded, so it can be one past the end.
RandomIndexes_Round(n) == 0..n

\* Math.floor(Math.random() * n), as a 0-based index
RandomIndexes(n) == IF n = 0 THEN {0} ELSE 0..(n - 1)

\* Faulty variant: the element after the drawn index is taken.
UrlAt_Next(imageUrls, index) ==
  IF index + 1 < Len(imageUrls) THEN imageUrls[index + 2]
  ELSE IF Len(imageUrls) > 0 THEN imageUrls[1] ELSE "undefined"

\* imageUrls[index]
UrlAt(imageUrls, index) ==
  IF index < Len(imageUrls) THEN imageUrls[index + 1] ELSE "undefined"

(* ------------------------------ Init ----------------------------------- *)

Init ==
  /\ phase = "loaded"
  /\ globalState = <<>>
  /\ intervalId = Undefined
  /\ timers = {}
  /\ settingsPanels = 0
  /\ pending = 0
  /\ imagePanels = 0
  /\ lastCall = Call("load", <<>>, <<>>, <<>>, <<>>)

(* ----------------------------- actions --------------------------------- *)

\* Faulty variant: the defaults are written without testing for an existing value.
Activate_Overwrite ==
  /\ phase = "loaded"
  /\ phase' = "active"
  /\ globalState' = <<DefaultSettings>>
  /\ lastCall' = Call("activate", <<>>, <<>>, <<>>, <<>>)
  /\ UNCHANGED <<intervalId, timers, settingsPanels, pending, imagePanels>>

\* activate(context)
Activate ==
  /\ phase = "loaded"
  /\ phase' = "active"
  /\ globalState' = IF globalState = <<>> THEN Update(globalState, DefaultSettings)
                    ELSE globalState
  /\ lastCall' = Call("activate", <<>>, <<>>, <<>>, <<>>)
  /\ UNCHANGED <<intervalId, timers, settingsPanels, pending, imagePanels>>

\* openSettings(context), run by the registered command
OpenSettings ==
  /\ phase = "active"
  /\ settingsPanels < MaxSettingsPanels
  /\ settingsPanels' = settingsPanels + 1
  /\ lastCall' = Call("openSettings", <<>>, <<>>, <<>>, <<GetSettings>>)
  /\ UNCHANGED <<phase, globalState, intervalId, timers, pending, imagePanels>>

\* Faulty variant: success is reported at once, before anything is written.
OnSaveSettings_NotifyFirst(urls, interval) ==
  /\ settingsPanels > 0
  /\ pending < MaxPending
  /\ lastCall' = Call("saveSettings", <<SaveMessage(urls, interval).settings>>,
                      <<Info("Settings saved successfully")>>, <<>>, <<>>)
  /\ pending' = pending + 1
  /\ UNCHANGED <<phase, globalState, intervalId, timers, settingsPanels, imagePanels>>

\* Faulty variant: the write is not awaited; the handler ends in one step.
OnSaveSettings_NoAwait(urls, interval) ==
  /\ settingsPanels > 0
  /\ LET message == SaveMessage(urls, interval)
     IN /\ globalState' = Update(globalState, message.settings)
        /\ lastCall' = Call("saveSettings", <<message.settings>>,
                            <<Info("Settings saved successfully")>>, <<>>, <<>>)
  /\ UNCHANGED <<phase, intervalId, timers, settingsPanels, pending, imagePanels>>

\* case "saveSettings", up to the await
OnSaveSettings(urls, interval) ==
  /\ settingsPanels > 0
  /\ pending < MaxPending
  /\ LET message == SaveMessage(urls, interval)
     IN /\ globalState' = Update(globalState, message.settings)
        /\ lastCall' = Call("saveSettings", <<message.settings>>, <<>>, <<>>, <<>>)
  /\ pending' = pending + 1
  /\ UNCHANGED <<phase, intervalId, timers, settingsPanels, imagePanels>>

\* case "saveSettings", resumed after the await
SaveSettingsDone ==
  /\ pending > 0
  /\ pending' = pending - 1
  /\ lastCall' = Call("saveSettingsDone", <<>>,
                      <<Info("Settings saved successfully")>>, <<>>, <<>>)
  /\ UNCHANGED <<phase, globalState, intervalId, timers, settingsPanels, imagePanels>>

\* Faulty variant: the empty-list check is missing.
NoImages_NoCheck(settings) == FALSE

\* settings.imageUrls.length === 0
NoImages(settings) == Len(settings.imageUrls) = 0

\* Faulty variant: the already-running check is missing.
AlreadyRunning_NoCheck == FALSE

\* if (intervalId)
AlreadyRunning == intervalId # Undefined

\* Faulty variant: the handle is tested before the empty list.
StartImageCycle_HandleFirst ==
  LET settings == GetSettings
  IN IF AlreadyRunning
     THEN /\ lastCall' = Call("startCycle", <<>>,
                 <<Warning("Image cycle is already running")>>, <<>>, <<>>)
          /\ UNCHANGED <<intervalId, timers, imagePanels>>
     ELSE IF NoImages(settings)
     THEN /\ lastCall' = Call("startCycle", <<>>,
                 <<Error("Please set image URLs in the settings first")>>, <<>>, <<>>)
          /\ UNCHANGED <<intervalId, timers, imagePanels>>
     ELSE /\ imagePanels < MaxImagePanels
          /\ LET id == NewTimerId
             IN /\ intervalId' = id
                /\ timers' = timers \cup
                     {[id |-> id, imageUrls |-> settings.imageUrls,
                       delay |-> Times(Times(settings.intervalMinutes, 60), 1000)]}
          /\ \E index \in RandomIndexes(Len(settings.imageUrls)) :
               LET randomUrl == UrlAt(settings.imageUrls, index)
               IN /\ imagePanels' = imagePanels + 1
                  /\ lastCall' = Drawn(Call("startCycle", <<>>,
                         <<Info("Started image cycle")>>, <<randomUrl>>, <<>>), index)

\* startImageCycle(context)
StartImageCycle ==
  LET settings == GetSettings
  IN IF NoImages(settings)
     THEN /\ lastCall' = Call("startCycle", <<>>,
                 <<Error("Please set image URLs in the settings first")>>, <<>>, <<>>)
          /\ UNCHANGED <<intervalId, timers, imagePanels>>
     ELSE IF AlreadyRunning
     THEN /\ lastCall' = Call("startCycle", <<>>,
                 <<Warning("Image cycle is already running")>>, <<>>, <<>>)
          /\ UNCHANGED <<intervalId, timers, imagePanels>>
     ELSE /\ imagePanels < MaxImagePanels
          /\ LET id == NewTimerId
             IN /\ intervalId' = id
                /\ timers' = timers \cup
                     {[id |-> id, imageUrls |-> settings.imageUrls,
                       delay |-> Times(Times(settings.intervalMinutes, 60), 1000)]}
          /\ \E index \in RandomIndexes(Len(settings.imageUrls)) :
               LET randomUrl == UrlAt(settings.imageUrls, index)
               IN /\ imagePanels' = imagePanels + 1
                  /\ lastCall' = Drawn(Call("startCycle", <<>>,
                         <<Info("Started image cycle")>>, <<randomUrl>>, <<>>), index)

\* case "startCycle"
OnStartCycle ==
  /\ settingsPanels > 0
  /\ StartImageCycle
  /\ UNCHANGED <<phase, globalState, settingsPanels, pending>>

\* Faulty variant: the handle is not tested before stopping.
StopImageCycle_NoTest ==
  /\ timers' = ClearInterval(timers, intervalId)
  /\ intervalId' = Undefined
  /\ lastCall' = Call("stopCycle", <<>>, <<Info("Stopped image cycle")>>, <<>>, <<>>)

\* Faulty variant: the timer is cancelled but the handle is kept.
StopImageCycle_KeepHandle ==
  IF intervalId # Undefined
  THEN /\ timers' = ClearInterval(timers, intervalId)
       /\ intervalId' = intervalId
       /\ lastCall' = Call("stopCycle", <<>>, <<Info("Stopped image cycle")>>, <<>>, <<>>)
  ELSE /\ lastCall' = Call("stopCycle", <<>>,
              <<Warning("Image cycle is not running")>>, <<>>, <<>>)
       /\ UNCHANGED <<intervalId, timers>>

\* stopImageCycle()
StopImageCycle ==
  IF intervalId # Undefined
  THEN /\ timers' = ClearInterval(timers, intervalId)
       /\ intervalId' = Undefined
       /\ lastCall' = Call("stopCycle", <<>>, <<Info("Stopped image cycle")>>, <<>>, <<>>)
  ELSE /\ lastCall' = Call("stopCycle", <<>>,
              <<Warning("Image cycle is not running")>>, <<>>, <<>>)
       /\ UNCHANGED <<intervalId, timers>>

\* case "stopCycle"
OnStopCycle ==
  /\ settingsPanels > 0
  /\ StopImageCycle
  /\ UNCHANGED <<phase, globalState, settingsPanels, pending, imagePanels>>

\* Faulty variant: the callback reads the Settings again at every tick.
Tick_Reread ==
  /\ imagePanels < MaxImagePanels
  /\ timers # {}
  /\ \E index \in RandomIndexes(Len(GetSettings.imageUrls)) :
       LET randomUrl == UrlAt(GetSettings.imageUrls, index)
       IN /\ imagePanels' = imagePanels + 1
          /\ lastCall' = Drawn(Call("tick", <<>>, <<>>, <<randomUrl>>, <<>>), index)
  /\ UNCHANGED <<phase, globalState, intervalId, timers, settingsPanels, pending>>

\* Faulty variant: a surface that is already open is shown again.
Tick_Reuse ==
  /\ imagePanels < MaxImagePanels
  /\ \E t \in timers : \E index \in RandomIndexes(Len(t.imageUrls)) :
       LET randomUrl == UrlAt(t.imageUrls, index)
       IN /\ imagePanels' = IF imagePanels > 0 THEN imagePanels ELSE 1
          /\ lastCall' = Drawn(Call("tick", <<>>, <<>>, <<randomUrl>>, <<>>), index)
  /\ UNCHANGED <<phase, globalState, intervalId, timers, settingsPanels, pending>>

\* the setInterval callback: () => showRandomImage(settings.imageUrls)
Tick ==
  /\ imagePanels < MaxImagePanels
  /\ \E t \in timers : \E index \in RandomIndexes(Len(t.imageUrls)) :
       LET randomUrl == UrlAt(t.imageUrls, index)
       IN /\ imagePanels' = imagePanels + 1
          /\ lastCall' = Drawn(Call("tick", <<>>, <<>>, <<randomUrl>>, <<>>), index)
  /\ UNCHANGED <<phase, globalState, intervalId, timers, settingsPanels, pending>>

\* Faulty variant: the timer is left scheduled.
Deactivate_NoClear ==
  /\ phase = "active"
  /\ phase' = "deactivated"
  /\ settingsPanels' = 0
  /\ lastCall' = Call("deactivate", <<>>, <<>>, <<>>, <<>>)
  /\ UNCHANGED <<globalState, intervalId, timers, pending, imagePanels>>

\* deactivate(), after which the host disposes context.subscriptions
Deactivate ==
  /\ phase = "active"
  /\ phase' = "deactivated"
  /\ timers' = IF intervalId # Undefined THEN ClearInterval(timers, intervalId)
               ELSE timers
  /\ settingsPanels' = 0
  /\ lastCall' = Call("deactivate", <<>>, <<>>, <<>>, <<>>)
  /\ UNCHANGED <<globalState, intervalId, pending, imagePanels>>

\* The process ends and a later one loads the module again.
Reload ==
  /\ phase = "deactivated"
  /\ phase' = "loaded"
  /\ intervalId' = Undefined
  /\ timers' = {}
  /\ pending' = 0
  /\ imagePanels' = 0
  /\ lastCall' = Call("load", <<>>, <<>>, <<>>, <<>>)
  /\ UNCHANGED <<globalState, settingsPanels>>

Next ==
  \/ Activate
  \/ OpenSettings
  \/ \E urls \in SeqsUpTo(UrlInputs, MaxUrls), interval \in IntervalInputs :
       OnSaveSettings(urls, interval)
  \/ SaveSettingsDone
  \/ OnStartCycle
  \/ OnStopCycle
  \/ Tick
  \/ Deactivate
  \/ Reload

Spec == Init /\ [][Next]_vars

(* ----------------------------- properties ------------------------------ *)

Range(seq) == {seq[k] : k \in 1..Len(seq)}

AlreadyRunningWarning == Warning("Image cycle is already running")

NotRunningWarning == Warning("Image cycle is not running")

NoImagesError == Error("Please set image URLs in the settings first")

StartedInfo == Info("Started image cycle")

StoppedInfo == Info("Stopped image cycle")

\* C1: in every reachable state at most one repeating timer is scheduled.
C1_AtMostOneTimer == Cardinality(timers) <= 1

\* A second start was refused while two settings surfaces are open and the
\* cycle's timer is scheduled.
C1_Witness ==
  /\ settingsPanels >= 2
  /\ Cardinality(timers) = 1
  /\ lastCall.op = "startCycle"
  /\ lastCall.notes = <<AlreadyRunningWarning>>

\* C2 as stated: a startCycle handled while the handle of an earlier start is
\* still set (no stop in between) leaves exactly one timer, shows the
\* already-running warning, displays no image and changes neither the handle
\* nor the persisted Settings.
C2_Original ==
  [][ (intervalId # Undefined /\ lastCall'.op = "startCycle")
      => /\ Cardinality(timers') = 1
         /\ lastCall'.notes = <<AlreadyRunningWarning>>
         /\ lastCall'.shown = <<>>
         /\ imagePanels' = imagePanels
         /\ intervalId' = intervalId
         /\ globalState' = globalState ]_vars

\* C2 amended: such a second startCycle leaves exactly one timer, displays no
\* image and changes neither the handle nor the persisted Settings; it shows the
\* already-running warning when the persisted imageUrls is non-empty at that
\* call, and the empty-list error otherwise.
C2_SecondStart ==
  [][ (intervalId # Undefined /\ lastCall'.op = "startCycle")
      => /\ Cardinality(timers') = 1
         /\ timers' = timers
         /\ lastCall'.notes =
              IF Len(GetSettings.imageUrls) > 0 THEN <<AlreadyRunningWarning>>
              ELSE <<NoImagesError>>
         /\ lastCall'.shown = <<>>
         /\ imagePanels' = imagePanels
         /\ intervalId' = intervalId
         /\ globalState' = globalState ]_vars

\* The second start was refused with the warning; the first cycle's image is
\* the only one displayed.
C2_Witness ==
  /\ lastCall.op = "startCycle"
  /\ lastCall.notes = <<AlreadyRunningWarning>>
  /\ intervalId # Undefined
  /\ imagePanels = 1

\* C3: stopCycle handled when no timer is scheduled shows the not-running
\* warning and leaves the handle, the timers, the persisted Settings and the
\* opened image surfaces unchanged.
C3_StopWhenStopped ==
  [][ (timers = {} /\ lastCall'.op = "stopCycle")
      => /\ lastCall'.notes = <<NotRunningWarning>>
         /\ lastCall'.shown = <<>>
         /\ intervalId' = intervalId
         /\ timers' = timers
         /\ globalState' = globalState
         /\ imagePanels' = imagePanels ]_vars

\* A stop was refused after a cycle had displayed images and been stopped.
C3_Witness ==
  /\ lastCall.op = "stopCycle"
  /\ lastCall.notes = <<NotRunningWarning>>
  /\ timers = {}
  /\ imagePanels > 0

\* C4: startCycle handled while the persisted imageUrls is empty shows the
\* empty-list error, creates no timer, displays no image and changes no state.
C4_StartEmpty ==
  [][ (Len(GetSettings.imageUrls) = 0 /\ lastCall'.op = "startCycle")
      => /\ lastCall'.notes = <<NoImagesError>>
         /\ lastCall'.shown = <<>>
         /\ UNCHANGED <<phase, globalState, intervalId, timers, settingsPanels,
                        pending, imagePanels>> ]_vars

\* A start was refused for an empty persisted list, with no cycle running.
C4_Witness ==
  /\ lastCall.op = "startCycle"
  /\ lastCall.notes = <<NoImagesError>>
  /\ globalState # <<>>
  /\ globalState[1].imageUrls = <<>>
  /\ timers = {}

\* C5: startCycle handled with a non-empty persisted imageUrls and no timer
\* scheduled displays exactly one image whose url is an element of that list,
\* schedules one timer over that list, sets the handle to it and reports
\* success; every tick displays exactly one url that is an element of the list
\* its timer was started with, and leaves the timers as they are.
C5_StartAndTicks ==
  [][ /\ (/\ Len(GetSettings.imageUrls) > 0
          /\ timers = {}
          /\ lastCall'.op = "startCycle")
         => /\ Len(lastCall'.shown) = 1
            /\ lastCall'.shown[1] \in Range(GetSettings.imageUrls)
            /\ imagePanels' = imagePanels + 1
            /\ lastCall'.notes = <<StartedInfo>>
            /\ Cardinality(timers') = 1
            /\ \A t \in timers' :
                  t.id = intervalId' /\ t.imageUrls = GetSettings.imageUrls
            /\ intervalId' # Undefined
      /\ lastCall'.op = "tick"
         => /\ Len(lastCall'.shown) = 1
            /\ \E t \in timers : lastCall'.shown[1] \in Range(t.imageUrls)
            /\ imagePanels' = imagePanels + 1
            /\ timers' = timers ]_vars

\* A tick displayed the second image of a cycle whose start displayed the first.
C5_Witness ==
  /\ lastCall.op = "tick"
  /\ imagePanels = 2
  /\ \E t \in timers : t.id = intervalId /\ lastCall.shown[1] \in Range(t.imageUrls)

SavedInfo == Info("Settings saved successfully")

\* C6: when a saveSettings message carrying Settings S has been handled, a read
\* of Settings returns exactly S, whatever was stored before; the stored value
\* then changes only by another saveSettings, openSettings renders the stored
\* value, and a successful startCycle schedules its timer from the stored value.
C6_SaveReadRoundTrip ==
  [][ /\ lastCall'.op = "saveSettings"
         => /\ Len(lastCall'.message) = 1
            /\ GetSettings' = lastCall'.message[1]
            /\ globalState' = lastCall'.message
      /\ (lastCall'.op # "saveSettings" /\ globalState # <<>>)
         => globalState' = globalState
      /\ (lastCall'.op = "openSettings" /\ globalState # <<>>)
         => lastCall'.rendered = globalState
      /\ (lastCall'.op = "startCycle" /\ globalState # <<>> /\ timers' # timers)
         => \A t \in timers' \ timers :
              /\ t.imageUrls = globalState[1].imageUrls
              /\ t.delay = Times(globalState[1].intervalMinutes, 60000) ]_vars

\* A settings surface was opened on a saved, non-default value after the save
\* handler had finished.
C6_Witness ==
  /\ lastCall.op = "openSettings"
  /\ pending = 0
  /\ lastCall.rendered = globalState
  /\ globalState # <<DefaultSettings>>

\* C7: activate writes the built-in default (the 6 urls, interval 4) when
\* nothing is persisted, and leaves a persisted value unchanged.
C7_ActivateDefaults ==
  [][ lastCall'.op = "activate"
      => /\ globalState = <<>>
            => /\ globalState' = <<DefaultSettings>>
               /\ Len(globalState'[1].imageUrls) = 6
               /\ globalState'[1].intervalMinutes = Num(4)
         /\ globalState # <<>> => globalState' = globalState ]_vars

\* A later activation left a value the user had saved.
C7_Witness ==
  /\ lastCall.op = "activate"
  /\ globalState # <<>>
  /\ globalState # <<DefaultSettings>>

\* C8: stopCycle handled while a timer is scheduled cancels it, clears the
\* handle, reports success and leaves the opened image surfaces; while the
\* handle is clear no tick happens, and only a successful startCycle schedules
\* a timer again.
C8_StopCancels ==
  [][ /\ (timers # {} /\ lastCall'.op = "stopCycle")
         => /\ timers' = {}
            /\ intervalId' = Undefined
            /\ lastCall'.notes = <<StoppedInfo>>
            /\ lastCall'.shown = <<>>
            /\ imagePanels' = imagePanels
      /\ intervalId = Undefined => lastCall'.op # "tick"
      /\ (timers = {} /\ timers' # {})
         => lastCall'.op = "startCycle" /\ lastCall'.notes = <<StartedInfo>> ]_vars

\* A running cycle that had displayed images was stopped; the surfaces remain.
C8_Witness ==
  /\ lastCall.op = "stopCycle"
  /\ lastCall.notes = <<StoppedInfo>>
  /\ timers = {}
  /\ imagePanels > 0

\* C9: deactivate leaves no timer scheduled and the persisted Settings
\* unchanged; once deactivated, no tick happens and no timer is scheduled.
C9_DeactivateCancels ==
  [][ /\ lastCall'.op = "deactivate"
         => timers' = {} /\ globalState' = globalState
      /\ phase = "deactivated"
         => lastCall'.op # "tick" /\ timers' = {} ]_vars

\* The controller was deactivated while its cycle was running.
C9_Witness ==
  /\ phase = "deactivated"
  /\ lastCall.op = "deactivate"
  /\ intervalId # Undefined
  /\ timers = {}

\* C10 as stated: the persisted intervalMinutes is an integer of at least 1,
\* and every scheduled timer has a delay of at least 60000 ms.
C10_Original ==
  /\ globalState # <<>>
     => /\ ~globalState[1].intervalMinutes.nan
        /\ globalState[1].intervalMinutes.v >= 1
  /\ \A t \in timers : ~t.delay.nan /\ t.delay.v >= 60000

\* C11: the success notification of saveSettings is shown only by the resumption
\* of a suspended save handler, and a save handler is suspended only by the step
\* that put its message's Settings into the store and showed nothing; so the
\* notification never precedes the write.
C11_NotifyAfterWrite ==
  [][ /\ (\E k \in 1..Len(lastCall'.notes) : lastCall'.notes[k] = SavedInfo)
         => /\ lastCall'.op = "saveSettingsDone"
            /\ pending > 0
            /\ pending' = pending - 1
      /\ lastCall'.op = "saveSettings"
         => /\ lastCall'.notes = <<>>
            /\ globalState' = lastCall'.message
            /\ pending' = pending + 1
      /\ pending' > pending => lastCall'.op = "saveSettings" ]_vars

\* A save handler resumed and reported success; the store holds a saved value.
C11_Witness ==
  /\ lastCall.op = "saveSettingsDone"
  /\ lastCall.notes = <<SavedInfo>>
  /\ globalState # <<>>
  /\ globalState # <<DefaultSettings>>

\* C12: the url displayed by a start is the element at the drawn index of the
\* imageUrls read by that start, and the url displayed by a tick is the element
\* at the drawn index of the list its cycle was started with; when the draw is
\* index 0 it is the first element of that list.
C12_DrawnIndex ==
  [][ /\ (lastCall'.op = "startCycle" /\ lastCall'.shown # <<>>)
         => /\ Len(lastCall'.drawn) = 1
            /\ lastCall'.drawn[1] \in 0..(Len(GetSettings.imageUrls) - 1)
            /\ lastCall'.shown = <<GetSettings.imageUrls[lastCall'.drawn[1] + 1]>>
            /\ lastCall'.drawn = <<0>> => lastCall'.shown = <<Head(GetSettings.imageUrls)>>
      /\ lastCall'.op = "tick"
         => /\ Len(lastCall'.drawn) = 1
            /\ \E t \in timers :
                 /\ t.id = intervalId
                 /\ lastCall'.drawn[1] \in 0..(Len(t.imageUrls) - 1)
                 /\ lastCall'.shown = <<t.imageUrls[lastCall'.drawn[1] + 1]>>
                 /\ lastCall'.drawn = <<0>> => lastCall'.shown = <<Head(t.imageUrls)>> ]_vars

\* A tick drew index 0 from a list of several urls and displayed its first.
C12_Witness ==
  /\ lastCall.op = "tick"
  /\ lastCall.drawn = <<0>>
  /\ \E t \in timers :
       /\ Len(t.imageUrls) > 1
       /\ lastCall.shown = <<t.imageUrls[1]>>

\* C13 as stated: while a saveSettings handler has begun and not finished, no
\* timer tick and no other message is handled.
C13_Original ==
  [][ pending > 0
      => lastCall'.op \notin {"tick", "startCycle", "stopCycle", "saveSettings"} ]_vars

\* C13 amended: startCycle, stopCycle and tick handlers run to completion in
\* one step and leave no handler suspended; the saveSettings handler runs in
\* two parts, up to its await (the store then holds its Settings) and from it
\* (the success notification, nothing else changed), and ticks and other
\* messages may be handled between the two.
C13_SaveSuspends ==
  [][ /\ lastCall'.op \in {"tick", "startCycle", "stopCycle", "openSettings"}
         => pending' = pending
      /\ lastCall'.op = "saveSettings"
         => /\ pending' = pending + 1
            /\ globalState' = lastCall'.message
            /\ UNCHANGED <<intervalId, timers, imagePanels>>
      /\ lastCall'.op = "saveSettingsDone"
         => /\ pending' = pending - 1
            /\ lastCall'.notes = <<SavedInfo>>
            /\ UNCHANGED <<globalState, intervalId, timers, imagePanels>> ]_vars

\* A tick displayed an image while a saveSettings handler was suspended.
C13_Witness ==
  /\ lastCall.op = "tick"
  /\ pending > 0
  /\ timers # {}

\* C14 as stated: the handle is set if and only if a timer is scheduled.
C14_Original == (intervalId # Undefined) <=> (timers # {})

\* C15: a saveSettings leaves the scheduled timer, its list and its delay as
\* they are; a scheduled timer changes only by being cancelled; every tick
\* draws from the list its timer was started with; and a timer scheduled by a
\* start carries the list and the delay of the Settings persisted at that start.
C15_Snapshot ==
  [][ /\ lastCall'.op \in {"saveSettings", "saveSettingsDone"}
         => timers' = timers /\ intervalId' = intervalId
      /\ (timers # {} /\ timers' # {}) => timers' = timers
      /\ lastCall'.op = "tick"
         => \E t \in timers :
              /\ t.id = intervalId
              /\ lastCall'.drawn[1] < Len(t.imageUrls)
              /\ lastCall'.shown = <<t.imageUrls[lastCall'.drawn[1] + 1]>>
      /\ (timers = {} /\ timers' # {})
         => \A t \in timers' :
              /\ t.imageUrls = GetSettings.imageUrls
              /\ t.delay = Times(GetSettings.intervalMinutes, 60000) ]_vars

\* A tick displayed a url of the list its cycle was started with after another
\* list and interval had been saved.
C15_Witness ==
  /\ lastCall.op = "tick"
  /\ \E t \in timers :
       /\ t.imageUrls # GetSettings.imageUrls
       /\ t.delay # Times(GetSettings.intervalMinutes, 60000)
       /\ GetSettings.imageUrls # <<>>
       /\ lastCall.shown[1] \in Range(t.imageUrls)
       /\ lastCall.shown[1] \notin Range(GetSettings.imageUrls)

\* C16: a startCycle handled when no timer is scheduled and the persisted
\* imageUrls is non-empty reports success and schedules one timer over the
\* Settings persisted at that moment, whatever failed or was stopped before; and
\* a timer is scheduled only by a startCycle step.
C16_StartAfterFailure ==
  [][ /\ (/\ timers = {}
          /\ Len(GetSettings.imageUrls) > 0
          /\ lastCall'.op = "startCycle")
         => /\ lastCall'.notes = <<StartedInfo>>
            /\ Cardinality(timers') = 1
            /\ \A t \in timers' :
                  /\ t.id = intervalId'
                  /\ t.imageUrls = GetSettings.imageUrls
                  /\ t.delay = Times(GetSettings.intervalMinutes, 60000)
      /\ (\E t \in timers' : t \notin timers)
         => lastCall'.op = "startCycle" ]_vars

\* A cycle was started again in a process where an earlier cycle had displayed
\* an image and been stopped, over Settings the user had saved.
C16_Witness ==
  /\ lastCall.op = "startCycle"
  /\ lastCall.notes = <<StartedInfo>>
  /\ imagePanels = 2
  /\ globalState # <<DefaultSettings>>
  /\ \E t \in timers : t.imageUrls = GetSettings.imageUrls

\* C17: a successful startCycle and a tick each open exactly one more image
\* surface, and every other handler of the controller leaves their number as
\* it is; surfaces go only when the process ends.
C17_FreshSurface ==
  [][ /\ (\/ lastCall'.op = "tick"
          \/ lastCall'.op = "startCycle" /\ lastCall'.notes = <<StartedInfo>>)
         => /\ imagePanels' = imagePanels + 1
            /\ Len(lastCall'.shown) = 1
      /\ (\/ lastCall'.op \in {"stopCycle", "deactivate", "saveSettings",
                                "saveSettingsDone", "openSettings", "activate"}
          \/ lastCall'.op = "startCycle" /\ lastCall'.notes # <<StartedInfo>>)
         => /\ imagePanels' = imagePanels
            /\ lastCall'.shown = <<>>
      /\ imagePanels' < imagePanels => lastCall'.op = "load" ]_vars

\* Two surfaces opened by a cycle are still open after deactivate.
C17_Witness ==
  /\ lastCall.op = "deactivate"
  /\ imagePanels >= 2
  /\ intervalId # Undefined

\* C18: a startCycle handled while a timer is scheduled and the persisted
\* imageUrls is empty shows the empty-list error, not the already-running
\* warning, and leaves the timer, the handle and the surfaces; after it the
\* timer can still tick.
C18_EmptyCheckFirst ==
  /\ [][ (/\ timers # {}
           /\ Len(GetSettings.imageUrls) = 0
           /\ lastCall'.op = "startCycle")
          => /\ lastCall'.notes = <<NoImagesError>>
             /\ timers' = timers
             /\ intervalId' = intervalId
             /\ imagePanels' = imagePanels ]_vars
  /\ []( (/\ lastCall.op = "startCycle"
           /\ lastCall.notes = <<NoImagesError>>
           /\ timers # {}
           /\ imagePanels < MaxImagePanels)
          => ENABLED Tick )

\* A start was refused for an empty list while a cycle's timer is scheduled.
C18_Witness ==
  /\ lastCall.op = "startCycle"
  /\ lastCall.notes = <<NoImagesError>>
  /\ Cardinality(timers) = 1
  /\ intervalId # Undefined
  /\ imagePanels < MaxImagePanels

====
